---------------------------- MODULE Spec2Model ----------------------------
(***************************************************************************)
(* A model of the brainfuck compiler pipeline of rust2/:                   *)
(*   parse.rs            the recursive-descent parser (one step per byte), *)
(*   opts.rs             ast_to_ir and the six optimizer passes,           *)
(*   lir/interpreter.rs  the tape machine (one step per instruction).      *)
(* Spans are left out: they are diagnostics only and no pass, and no       *)
(* instruction, reads them.  The tape is kept as the finite map of its     *)
(* nonzero cells; every other cell of the MEM_SIZE cells holds 0.          *)
(* The sink is an in-memory byte vector (its write and flush succeed).     *)
(***************************************************************************)
EXTENDS Integers, Sequences, FiniteSets, TLC

VARIABLES
    src,      \* the source bytes handed to parse, as runs of equal bytes
    pos,      \* how many bytes the iterator `src` has yielded
    frames,   \* the parser's call stack: the `instrs` of parse, then of each
              \* active parse_loop
    depth,    \* the `depth` argument of the innermost active parse_loop
    arena,    \* the bodies of the loops parsed so far
    parsed,   \* "none" while parsing, then "Ok" or "Err"
    ast,      \* the instrs of Ok(instrs)
    pc,       \* the position of the driver in the pipeline
    ir,       \* the optimizer's Ir
    code,     \* the Lir statement list the interpreter runs
    mode,     \* which list is run: "opt", "ref" (unoptimized) or "lir"
    ip,       \* Interpreter.ip
    ptr,      \* Interpreter.ptr
    mem,      \* Interpreter.mem
    stdout,   \* the bytes written to the sink
    flushes,  \* how often the sink was flushed
    stdin,    \* the bytes of the source stream
    inpos,    \* how many of them were read
    calls,    \* how often profile_collector was invoked
    cb_arg,   \* the argument of its last invocation
    status,   \* "idle", "running", "ended", "panic" or "crash"
    ub,       \* an access outside the tape has happened
    steps,    \* instructions executed by this run
    last,     \* the instruction executed last and the state it started from
    optRes,   \* how the run of the optimized program ended
    pin,      \* the statement list handed to a single pass
    applied,  \* the pass it was handed to, "none" before
    pout,     \* what the pass returned, and what it returned when run again
    kept,     \* the source parsed first and what parse returned for it
    win       \* a call of window_pass: its closure and the frames of its loop

vars == <<src, pos, frames, depth, arena, parsed, ast, pc, ir, code, mode, ip, ptr, mem,
          stdout, flushes, stdin, inpos, calls, cb_arg, status, ub, steps,
          last, optRes, pin, applied, pout, kept, win>>

parserVars == <<pos, frames, depth, arena, parsed, ast>>
passVars == <<pin, applied, pout>>
interpVars == <<code, mode, ip, ptr, mem, stdout, flushes, inpos, calls,
                cb_arg, status, ub, steps, last>>

-----------------------------------------------------------------------------
(* Bounds of the model *)

MaxSrcLen == 3
MaxInput == 1
MaxSteps == 48
MaxLirLen == 2
MaxIrLen == 3
MaxRun == 511
MaxWinLen == 3
MaxWinIters == 5
MaxWinDepth == 3

(* Program constants *)

MEM_SIZE == 32000
MAX_DEPTH == 1000
U8_MAX == 255

-----------------------------------------------------------------------------
(* Source text *)

LeafBytes == {"+", "-", ">", "<", ".", ","}
CommentByte == "x"
Alphabet == LeafBytes \cup {"[", "]", CommentByte}

SeqsUpTo(S, n) == UNION {[1..k -> S] : k \in 0..n}

\* a source is kept as the sequence of its runs: k times the byte b
Run(b, k) == [b |-> b, k |-> k]

\* the source with the bytes s[1], s[2], ...
Text(s) == [i \in 1..Len(s) |-> Run(s[i], 1)]

RECURSIVE RunStart(_, _)
\* how many bytes come before run r of s
RunStart(s, r) == IF r = 1 THEN 0 ELSE RunStart(s, r - 1) + s[r - 1].k

SrcLen(s) == IF s = <<>> THEN 0 ELSE RunStart(s, Len(s)) + s[Len(s)].k

\* byte i of s (1-based)
ByteAt(s, i) ==
    LET r == CHOOSE r \in 1..Len(s) : RunStart(s, r) < i /\ i <= RunStart(s, r) + s[r].k
    IN s[r].b

Opens(k) == <<Run("[", k)>>
Closes(k) == IF k = 0 THEN <<>> ELSE <<Run("]", k)>>

Corpus ==
    { <<"[", "-", "]">>,
      <<"[", "-", ">", "+", "<", "]">>,
      <<">", "+", "<">>,
      <<"+", "[", "-", ">", "+", "<", "]">>,
      <<"+", "<", ">", ".">>,
      <<"<", "+", ">", ".">>,
      <<"<", "-", ">">>,
      <<"+", "[", "-", "<", "+", ">", "]">>,
      <<"+", "[", "-", "-", "]">>,
      <<"+", "+", "[", "-", "]", "+", ".">>,
      <<"[", "-", "]", "-", ".">>,
      <<"-", ".", "+", ".">>,
      <<",", ".", ",", ".">>,
      <<",", "[", ".", "-", "]">>,
      <<"+", "[", "[", "-", "]", "]", ".">>,
      <<"<", ">", ">", "+", ".">>,
      <<"+", ">", "<", "-", ".">>,
      <<"-", "[", "-", ">", "<", "+", "]">>,
      <<"[", "+", ">", "<", "-", "]">> }

Sources == {Text(s) : s \in SeqsUpTo(Alphabet, MaxSrcLen) \cup Corpus}

DeepSources ==
    UNION { {Opens(k) \o Closes(k), Opens(k), Opens(k) \o Closes(k - 1)} :
            k \in {MAX_DEPTH, MAX_DEPTH + 1, MAX_DEPTH + 2} }

InBytes == {0, 1, 255}

(* sources with commentary *)

\* bytes the parser has no arm for: a letter, a blank, a line end
CommentBytes == {CommentByte, " ", "\n"}

IsCommand(b) == b \in LeafBytes \cup {"[", "]"}

\* the bytes of s with the byte c before each of them and after the last
Sprinkle(s, c) ==
    [i \in 1..(2 * Len(s) + 1) |-> IF i % 2 = 1 THEN c ELSE s[i \div 2]]

\* the source s without its bytes that are no commands
strip_comments(s) == SelectSeq(s, LAMBDA r : IsCommand(r.b))

CommentedSources ==
    Sources
    \cup {Text(Sprinkle(s, c)) : s \in SeqsUpTo(Alphabet, MaxSrcLen) \cup Corpus,
                                 c \in CommentBytes}
    \cup UNION { {Opens(k) \o <<Run(c, 1)>> \o Closes(k),
                  <<Run(c, 2)>> \o Opens(k) \o Closes(k) \o <<Run(c, 1)>>} :
                 k \in {MAX_DEPTH + 1, MAX_DEPTH + 2}, c \in {CommentByte} }

HasIn(s) == \E r \in 1..Len(s) : s[r].b = ","

\* the streams tried with a source: a program without ',' never reads
InputsFor(s) == IF HasIn(s) THEN SeqsUpTo(InBytes, MaxInput) ELSE {<<>>}

-----------------------------------------------------------------------------
(* parse.rs: Instr.  The vector of a Loop lives in the bump arena: a Loop *)
(* holds the index of its body in `arena`, a leaf holds 0.                *)

Leaf(op) == [op |-> op, body |-> 0]
Loop(id) == [op |-> "Loop", body |-> id]

InstrOf(b) ==
    CASE b = "+" -> Leaf("Add")
      [] b = "-" -> Leaf("Sub")
      [] b = ">" -> Leaf("Right")
      [] b = "<" -> Leaf("Left")
      [] b = "." -> Leaf("Out")
      [] b = "," -> Leaf("In")

\* instrs.push(instr) in the innermost active call
PushInstr(fs, instr) ==
    [fs EXCEPT ![Len(fs)] = Append(@, instr)]

\* the depth argument of the parse_loop call made for a '[': 0 from parse,
\* depth + 1 from parse_loop
loop_depth(fs, d) == IF Len(fs) = 1 THEN 0 ELSE d + 1

depth_exceeded(d) == d > MAX_DEPTH

\* what a ']' does: an error in parse, the end of the loop in parse_loop
close_is_error(fs) == Len(fs) = 1

\* variant: an unclosed loop is closed by the end of the stream
eof_always_ok(fs) == "Ok"

\* what the end of the stream does: parse returns its instrs, parse_loop fails
eof_result(fs) == IF Len(fs) = 1 THEN "Ok" ELSE "Err"

\* no call of window_pass
NoWin == [name |-> "none", n |-> 0, tab |-> <<>>, frames |-> <<>>]

\* nothing parsed before
NoKept == [src |-> <<>>, parsed |-> "none", ast |-> <<>>, arena |-> <<>>]

Parsing == pc = "parse" /\ parsed = "none"

NextByte == ByteAt(src, pos + 1)

\* Err(ParseError) carries no tree
ParseFail ==
    /\ parsed' = "Err"
    /\ frames' = <<>>
    /\ depth' = 0
    /\ arena' = <<>>
    /\ ast' = <<>>
    /\ pc' = "parsed"

ParseLeaf ==
    /\ Parsing
    /\ pos < SrcLen(src)
    /\ NextByte \in LeafBytes
    /\ pos' = pos + 1
    /\ frames' = PushInstr(frames, InstrOf(NextByte))
    /\ UNCHANGED <<depth, arena, parsed, ast, pc>>
    /\ UNCHANGED <<src, stdin, ir, optRes, pin, applied, pout, kept, win>>
    /\ UNCHANGED interpVars

ParseOpen ==
    /\ Parsing
    /\ pos < SrcLen(src)
    /\ NextByte = "["
    /\ pos' = pos + 1
    /\ IF depth_exceeded(loop_depth(frames, depth))
       THEN ParseFail
       ELSE /\ frames' = Append(frames, <<>>)
            /\ depth' = loop_depth(frames, depth)
            /\ UNCHANGED <<arena, parsed, ast, pc>>
    /\ UNCHANGED <<src, stdin, ir, optRes, pin, applied, pout, kept, win>>
    /\ UNCHANGED interpVars

ParseClose ==
    /\ Parsing
    /\ pos < SrcLen(src)
    /\ NextByte = "]"
    /\ pos' = pos + 1
    /\ IF close_is_error(frames)
       THEN ParseFail
       ELSE /\ arena' = Append(arena, frames[Len(frames)])
            /\ frames' = PushInstr(SubSeq(frames, 1, Len(frames) - 1),
                                   Loop(Len(arena) + 1))
            /\ depth' = IF depth = 0 THEN 0 ELSE depth - 1
            /\ UNCHANGED <<parsed, ast, pc>>
    /\ UNCHANGED <<src, stdin, ir, optRes, pin, applied, pout, kept, win>>
    /\ UNCHANGED interpVars

\* variant: inside a loop only commands are allowed
ParseCommentStrict ==
    /\ Parsing
    /\ pos < SrcLen(src)
    /\ NextByte \notin LeafBytes \cup {"[", "]"}
    /\ pos' = pos + 1
    /\ IF Len(frames) > 1
       THEN ParseFail
       ELSE UNCHANGED <<frames, depth, arena, parsed, ast, pc>>
    /\ UNCHANGED <<src, stdin, ir, optRes, pin, applied, pout, kept, win>>
    /\ UNCHANGED interpVars

ParseComment ==
    /\ Parsing
    /\ pos < SrcLen(src)
    /\ NextByte \notin LeafBytes \cup {"[", "]"}
    /\ pos' = pos + 1
    /\ UNCHANGED <<frames, depth, arena, parsed, ast, pc>>
    /\ UNCHANGED <<src, stdin, ir, optRes, pin, applied, pout, kept, win>>
    /\ UNCHANGED interpVars

ParseEof ==
    /\ Parsing
    /\ pos = SrcLen(src)
    /\ IF eof_result(frames) = "Ok"
       THEN /\ parsed' = "Ok"
            /\ ast' = frames[1]
            /\ frames' = <<>>
            /\ pc' = "parsed"
            /\ UNCHANGED <<depth, arena>>
       ELSE ParseFail
    /\ UNCHANGED pos
    /\ UNCHANGED <<src, stdin, ir, optRes, pin, applied, pout, kept, win>>
    /\ UNCHANGED interpVars

parse == ParseLeaf \/ ParseOpen \/ ParseClose \/ ParseComment \/ ParseEof

\* the driver of the comparison: parse is called again, on the source without
\* its commentary; what it returned for the full source is kept
Reparse ==
    /\ pc = "parsed"
    /\ kept = NoKept
    /\ kept' = [src |-> src, parsed |-> parsed, ast |-> ast, arena |-> arena]
    /\ src' = strip_comments(src)
    /\ pos' = 0
    /\ frames' = <<<<>>>>
    /\ depth' = 0
    /\ arena' = <<>>
    /\ parsed' = "none"
    /\ ast' = <<>>
    /\ pc' = "parse"
    /\ UNCHANGED <<stdin, ir, optRes, pin, applied, pout, win>>
    /\ UNCHANGED interpVars

-----------------------------------------------------------------------------
(* opts.rs: StmtKind *)

S(kind, offset, n, body) ==
    [kind |-> kind, offset |-> offset, n |-> n, body |-> body]

SAdd(offset, n) == S("Add", offset, n, <<>>)
SSub(offset, n) == S("Sub", offset, n, <<>>)
SMoveAddTo(offset) == S("MoveAddTo", offset, 0, <<>>)
SRight(n) == S("Right", 0, n, <<>>)
SLeft(n) == S("Left", 0, n, <<>>)
SLoop(body) == S("Loop", 0, 0, body)
SOut == S("Out", 0, 0, <<>>)
SIn == S("In", 0, 0, <<>>)
SSetN(n) == S("SetN", 0, n, <<>>)

RECURSIVE ast_to_ir(_, _)
\* ar is the arena the bodies of the loops of a live in
ast_to_ir(ar, a) ==
    [i \in 1..Len(a) |->
        CASE a[i].op = "Add" -> SAdd(0, 1)
          [] a[i].op = "Sub" -> SSub(0, 1)
          [] a[i].op = "Right" -> SRight(1)
          [] a[i].op = "Left" -> SLeft(1)
          [] a[i].op = "Out" -> SOut
          [] a[i].op = "In" -> SIn
          [] a[i].op = "Loop" -> SLoop(ast_to_ir(ar, ar[a[i].body]))]

\* `*a += b` on a u8 count (release arithmetic)
u8_add(a, b) == (a + b) % 256

wrapping_add(a, b) == (a + b) % 256
wrapping_sub(a, b) == (a - b + 256) % 256

\* variant: a count of 255 is still extended
group_open_at_cap(a) == a <= U8_MAX

\* the guard of the four merging arms of pass_group
group_open(a) == a < U8_MAX

\* variant: the merged statement is pushed, the old one stays
keep_and_push(stmts, s) == Append(stmts, s)

ReplaceLast(stmts, s) == [stmts EXCEPT ![Len(stmts)] = s]

RECURSIVE pass_group(_)
RECURSIVE group_fold(_, _, _, _)

\* the closure of the fold of pass_group: `stmts` is the accumulator
group_step(stmts, next) ==
    LET old == stmts[Len(stmts)]
        pushed == IF next.kind = "Loop"
                  THEN Append(stmts, SLoop(pass_group(next.body)))
                  ELSE Append(stmts, next)
    IN IF stmts = <<>> THEN pushed
       ELSE CASE old.kind = "Add" /\ next.kind = "Add"
                   /\ group_open(old.n) /\ old.offset = next.offset ->
                     ReplaceLast(stmts, SAdd(old.offset, u8_add(old.n, next.n)))
              [] old.kind = "Sub" /\ next.kind = "Sub"
                   /\ group_open(old.n) /\ old.offset = next.offset ->
                     ReplaceLast(stmts, SSub(old.offset, u8_add(old.n, next.n)))
              [] old.kind = "Right" /\ next.kind = "Right"
                   /\ group_open(old.n) ->
                     ReplaceLast(stmts, SRight(old.n + next.n))
              [] old.kind = "Left" /\ next.kind = "Left"
                   /\ group_open(old.n) ->
                     ReplaceLast(stmts, SLeft(old.n + next.n))
              [] OTHER -> pushed

\* the left fold of group_step over input[lo..hi], from the accumulator
\* `stmts`; the range is folded in two halves, the left one first
group_fold(input, lo, hi, stmts) ==
    IF lo > hi THEN stmts
    ELSE IF lo = hi THEN group_step(stmts, input[lo])
    ELSE LET mid == (lo + hi) \div 2
             left == group_fold(input, lo, mid, stmts)
         IN \* Len(left) makes the left half be evaluated before the right one
            IF Len(left) = 0 THEN group_fold(input, mid + 1, hi, <<>>)
            ELSE group_fold(input, mid + 1, hi, left)

pass_group(stmts) == group_fold(stmts, 1, Len(stmts), <<>>)

\* variant: the slice pattern [Sub(_, _)]
is_any_sub_body(body) ==
    /\ Len(body) = 1
    /\ body[1].kind = "Sub"

\* the slice pattern [Sub(0, _)]
IsSetNullBody(body) ==
    /\ Len(body) = 1
    /\ body[1].kind = "Sub"
    /\ body[1].offset = 0

RECURSIVE pass_find_set_null(_)
pass_find_set_null(stmts) ==
    [i \in 1..Len(stmts) |->
        IF stmts[i].kind = "Loop"
        THEN IF IsSetNullBody(stmts[i].body)
             THEN SSetN(0)
             ELSE SLoop(pass_find_set_null(stmts[i].body))
        ELSE stmts[i]]

\* the slice patterns [Sub(0, 1), Add(offset, 1)] | [Add(offset, 1), Sub(0, 1)]
IsSub01(s) == s.kind = "Sub" /\ s.offset = 0 /\ s.n = 1
IsAdd1(s) == s.kind = "Add" /\ s.n = 1

IsMoveAddBody(body) ==
    /\ Len(body) = 2
    /\ \/ IsSub01(body[1]) /\ IsAdd1(body[2])
       \/ IsAdd1(body[1]) /\ IsSub01(body[2])

MoveAddOffset(body) ==
    IF IsSub01(body[1]) /\ IsAdd1(body[2]) THEN body[2].offset ELSE body[1].offset

RECURSIVE pass_move_add_to(_)
pass_move_add_to(stmts) ==
    [i \in 1..Len(stmts) |->
        IF stmts[i].kind = "Loop"
        THEN IF IsMoveAddBody(stmts[i].body)
             THEN SMoveAddTo(MoveAddOffset(stmts[i].body))
             ELSE SLoop(pass_move_add_to(stmts[i].body))
        ELSE stmts[i]]

(* opts.rs: WindowPassAction and the three decision closures *)

ActNone == [tag |-> "None", new |-> SOut]
ActRemoveAll == [tag |-> "RemoveAll", new |-> SOut]
ActMerge(new) == [tag |-> "Merge", new |-> new]

set_n_action(a, b) ==
    IF a.kind = "SetN"
    THEN CASE b.kind = "Add" /\ b.offset = 0 -> ActMerge(SSetN(wrapping_add(a.n, b.n)))
           [] b.kind = "Sub" /\ b.offset = 0 -> ActMerge(SSetN(wrapping_sub(a.n, b.n)))
           [] OTHER -> ActNone
    ELSE ActNone

\* `match r.cmp(l)` of the cancel pass, for a pair of moves
cancel_moves(r, l) ==
    IF r = l THEN ActRemoveAll
    ELSE IF r < l THEN ActMerge(SLeft(l - r))
    ELSE ActMerge(SRight(r - l))

\* the same for an Add and a Sub at one offset
cancel_deltas(offset_a, r, l) ==
    IF r = l THEN ActRemoveAll
    ELSE IF r < l THEN ActMerge(SSub(offset_a, l - r))
    ELSE ActMerge(SAdd(offset_a, r - l))

cancel_action(a, b) ==
    CASE a.kind = "Right" /\ b.kind = "Left" -> cancel_moves(a.n, b.n)
      [] a.kind = "Left" /\ b.kind = "Right" -> cancel_moves(b.n, a.n)
      [] a.kind = "Add" /\ b.kind = "Sub" /\ a.offset = b.offset ->
            cancel_deltas(a.offset, a.n, b.n)
      [] a.kind = "Sub" /\ b.kind = "Add" /\ a.offset = b.offset ->
            cancel_deltas(a.offset, b.n, a.n)
      [] OTHER -> ActNone

\* variant: the sign of the offset follows the second move, not the first
add_sub_offset_mirrored(a, b, c) ==
    CASE a.kind = "Right" /\ b.kind = "Add" /\ b.offset = 0 /\ c.kind = "Left"
            /\ a.n = c.n -> ActMerge(SAdd(-a.n, b.n))
      [] a.kind = "Left" /\ b.kind = "Add" /\ b.offset = 0 /\ c.kind = "Right"
            /\ a.n = c.n -> ActMerge(SAdd(c.n, b.n))
      [] a.kind = "Right" /\ b.kind = "Sub" /\ b.offset = 0 /\ c.kind = "Left"
            /\ a.n = c.n -> ActMerge(SSub(-a.n, b.n))
      [] a.kind = "Left" /\ b.kind = "Sub" /\ b.offset = 0 /\ c.kind = "Right"
            /\ a.n = c.n -> ActMerge(SSub(c.n, b.n))
      [] OTHER -> ActNone

add_sub_offset_action(a, b, c) ==
    CASE a.kind = "Right" /\ b.kind = "Add" /\ b.offset = 0 /\ c.kind = "Left"
            /\ a.n = c.n -> ActMerge(SAdd(a.n, b.n))
      [] a.kind = "Left" /\ b.kind = "Add" /\ b.offset = 0 /\ c.kind = "Right"
            /\ a.n = c.n -> ActMerge(SAdd(-c.n, b.n))
      [] a.kind = "Right" /\ b.kind = "Sub" /\ b.offset = 0 /\ c.kind = "Left"
            /\ a.n = c.n -> ActMerge(SSub(a.n, b.n))
      [] a.kind = "Left" /\ b.kind = "Sub" /\ b.offset = 0 /\ c.kind = "Right"
            /\ a.n = c.n -> ActMerge(SSub(-c.n, b.n))
      [] OTHER -> ActNone

\* the const parameter N of window_pass, per pass
WindowN(pass) == IF pass = "pass_add_sub_offset" THEN 3 ELSE 2

WindowAction(pass, w) ==
    CASE pass = "pass_set_n" -> set_n_action(w[1], w[2])
      [] pass = "pass_cancel_left_right_add_sub" -> cancel_action(w[1], w[2])
      [] pass = "pass_add_sub_offset" -> add_sub_offset_action(w[1], w[2], w[3])

\* stmts without its elements i .. i+k-1 (1-based)
RemoveAt(stmts, i, k) ==
    SubSeq(stmts, 1, i - 1) \o SubSeq(stmts, i + k, Len(stmts))

RECURSIVE window_pass(_, _)
RECURSIVE window_iter(_, _, _)

\* the while loop of window_pass: its variables before the first iteration
WindowStart(stmts) == [stmts |-> stmts, i |-> 1, done |-> FALSE]

\* one iteration of the while loop (i is 1-based); pass_recur is the pass
\* itself, that is window_pass with the same closure
window_step(pass, st) ==
    IF st.done \/ st.i > Len(st.stmts) THEN [st EXCEPT !.done = TRUE]
    ELSE LET N == WindowN(pass)
             i == st.i
             recurred ==
                 IF st.stmts[i].kind = "Loop"
                 THEN [st.stmts EXCEPT ![i] = SLoop(window_pass(pass, st.stmts[i].body))]
                 ELSE st.stmts
         IN IF (i - 1) + N > Len(recurred)
            THEN [stmts |-> recurred, i |-> i, done |-> TRUE]
            ELSE LET result == WindowAction(pass, SubSeq(recurred, i, i + N - 1))
                 IN CASE result.tag = "None" ->
                           [stmts |-> recurred, i |-> i + 1, done |-> FALSE]
                      [] result.tag = "RemoveAll" ->
                           [stmts |-> RemoveAt(recurred, i, N), i |-> i, done |-> FALSE]
                      [] result.tag = "Merge" ->
                           [stmts |-> [RemoveAt(recurred, i, N - 1) EXCEPT ![i] = result.new],
                            i |-> i, done |-> FALSE]

\* k iterations of the loop, the first half of them first
window_iter(pass, st, k) ==
    IF k = 0 THEN st
    ELSE IF k = 1 THEN window_step(pass, st)
    ELSE LET half == window_iter(pass, st, k \div 2)
         IN IF half.done THEN half ELSE window_iter(pass, half, k - (k \div 2))

\* with the window sizes 2 and 3 of the three passes every iteration moves i
\* forward or shortens stmts, so the loop is over after at most Len(stmts)
\* iterations
window_pass(pass, stmts) == window_iter(pass, WindowStart(stmts), Len(stmts)).stmts

pass_set_n(stmts) == window_pass("pass_set_n", stmts)
pass_cancel_left_right_add_sub(stmts) == window_pass("pass_cancel_left_right_add_sub", stmts)
pass_add_sub_offset(stmts) == window_pass("pass_add_sub_offset", stmts)

optimize(ar, instrs) ==
    pass_move_add_to(
      pass_add_sub_offset(
        pass_cancel_left_right_add_sub(
          pass_set_n(
            pass_find_set_null(
              pass_group(
                ast_to_ir(ar, instrs)))))))

(* the driver's walk through optimize, one pass per step *)

OptStep(from, to, result) ==
    /\ pc = from
    /\ pc' = to
    /\ ir' = result
    /\ UNCHANGED <<src, stdin, optRes, pin, applied, pout, kept, win>>
    /\ UNCHANGED parserVars
    /\ UNCHANGED interpVars

AstToIr ==
    /\ parsed = "Ok"
    /\ OptStep("parsed", "pass_group", ast_to_ir(arena, ast))

PassGroup == OptStep("pass_group", "pass_find_set_null", pass_group(ir))

PassFindSetNull == OptStep("pass_find_set_null", "pass_set_n", pass_find_set_null(ir))

PassSetN == OptStep("pass_set_n", "pass_cancel", pass_set_n(ir))

PassCancel == OptStep("pass_cancel", "pass_add_sub_offset", pass_cancel_left_right_add_sub(ir))

PassAddSubOffset == OptStep("pass_add_sub_offset", "pass_move_add_to", pass_add_sub_offset(ir))

PassMoveAddTo == OptStep("pass_move_add_to", "optimized", pass_move_add_to(ir))

Optimize ==
    \/ AstToIr
    \/ PassGroup
    \/ PassFindSetNull
    \/ PassSetN
    \/ PassCancel
    \/ PassAddSubOffset
    \/ PassMoveAddTo

(* a single pass handed a statement list, and handed its own result again *)

PassNames ==
    {"pass_group", "pass_find_set_null", "pass_set_n",
     "pass_cancel_left_right_add_sub", "pass_add_sub_offset", "pass_move_add_to"}

PassFn(name, stmts) ==
    CASE name = "pass_group" -> pass_group(stmts)
      [] name = "pass_find_set_null" -> pass_find_set_null(stmts)
      [] name = "pass_set_n" -> pass_set_n(stmts)
      [] name = "pass_cancel_left_right_add_sub" -> pass_cancel_left_right_add_sub(stmts)
      [] name = "pass_add_sub_offset" -> pass_add_sub_offset(stmts)
      [] name = "pass_move_add_to" -> pass_move_add_to(stmts)

PassIdle ==
    /\ UNCHANGED <<src, stdin, ir, optRes, pc, pin, kept, win>>
    /\ UNCHANGED parserVars
    /\ UNCHANGED interpVars

ApplyPass(name) ==
    /\ pc = "passes"
    /\ applied = "none"
    /\ applied' = name
    /\ pout' = <<PassFn(name, pin)>>
    /\ PassIdle

ApplyGroup == ApplyPass("pass_group")
ApplyFindSetNull == ApplyPass("pass_find_set_null")
ApplySetN == ApplyPass("pass_set_n")
ApplyCancel == ApplyPass("pass_cancel_left_right_add_sub")
ApplyAddSubOffset == ApplyPass("pass_add_sub_offset")
ApplyMoveAddTo == ApplyPass("pass_move_add_to")

\* the same pass once more, on what it returned
ApplyAgain ==
    /\ pc = "passes"
    /\ applied \in PassNames
    /\ Len(pout) = 1
    /\ pout' = Append(pout, PassFn(applied, pout[1]))
    /\ UNCHANGED applied
    /\ PassIdle

Passes ==
    \/ ApplyGroup
    \/ ApplyFindSetNull
    \/ ApplySetN
    \/ ApplyCancel
    \/ ApplyAddSubOffset
    \/ ApplyMoveAddTo
    \/ ApplyAgain

(* the statement lists handed to a single pass *)

UnitStmts == {SAdd(0, 1), SSub(0, 1), SRight(1), SLeft(1), SOut}

OtherStmts == {SAdd(1, 1), SSub(1, 1), SRight(2), SSetN(1)}

LoopStmts ==
    { SLoop(<<>>),
      SLoop(<<SSub(0, 1)>>),
      SLoop(<<SSub(1, 1)>>),
      SLoop(<<SAdd(0, 1), SAdd(0, 1)>>),
      SLoop(<<SOut, SLoop(<<SSub(0, 1)>>)>>) }

Repeat(s, k) == [i \in 1..k |-> s]

LongRuns ==
    {Repeat(s, k) : s \in {SAdd(0, 1), SRight(1)}, k \in {U8_MAX, U8_MAX + 1, MaxRun}}
    \cup {<<SLoop(Repeat(SSub(0, 1), U8_MAX + 1))>>,
          <<SOut, SLoop(Repeat(SLeft(1), U8_MAX + 2))>>}

IrInputs ==
    SeqsUpTo(UnitStmts \cup OtherStmts \cup LoopStmts, MaxIrLen) \cup LongRuns

-----------------------------------------------------------------------------
(* opts.rs: window_pass, one iteration of its while loop per step, for any  *)
(* window size and any decision closure.  A frame is one activation of      *)
(* window_pass: the top-level call, or a pass_recur(body) made from inside  *)
(* the frame below it.                                                      *)

\* the locals of window_pass at its entry (i is 1-based); len0 is
\* stmts.len() at entry, iters counts the iterations of the while loop, prev
\* is i and stmts.len() at the start of the last iteration
NewFrame(stmts) ==
    [stmts |-> stmts, i |-> 1, len0 |-> Len(stmts), iters |-> 0,
     recurred |-> FALSE, done |-> FALSE, prev |-> [i |-> 1, len |-> Len(stmts)]]

Top == win.frames[Len(win.frames)]

SetTop(f) == [win EXCEPT !.frames[Len(win.frames)] = f]

\* action(elements): a closure given by a table on the kind of the first
\* element, or the closure of one of the three window passes
Decide(w) ==
    IF win.name = "table" THEN win.tab[w[1].kind] ELSE WindowAction(win.name, w)

\* `while i < stmts.len()` holds in the active frame
Scanning ==
    /\ pc = "window"
    /\ win.frames # <<>>
    /\ ~Top.done
    /\ Top.i <= Len(Top.stmts)
    /\ Top.iters < MaxWinIters

\* `if let StmtKind::Loop(body)` and pass_recur(body) not yet called in this
\* iteration
NeedsRecur == Top.stmts[Top.i].kind = "Loop" /\ ~Top.recurred

\* `i + N > stmts.len()`
WindowShort == (Top.i - 1) + win.n > Len(Top.stmts)

WindowNow == SubSeq(Top.stmts, Top.i, Top.i + win.n - 1)

WinIdle ==
    /\ UNCHANGED <<src, stdin, ir, optRes, pin, applied, pout, kept>>
    /\ UNCHANGED parserVars
    /\ UNCHANGED interpVars

\* the end of an iteration that did not break
Iterated(stmts2, i2) ==
    /\ win' = SetTop([Top EXCEPT !.stmts = stmts2, !.i = i2, !.iters = @ + 1,
                                 !.recurred = FALSE,
                                 !.prev = [i |-> Top.i, len |-> Len(Top.stmts)]])
    /\ UNCHANGED pc
    /\ WinIdle

\* pass_recur(body): window_pass is entered for the body
WinRecur ==
    /\ Scanning
    /\ NeedsRecur
    /\ Len(win.frames) < MaxWinDepth
    /\ win' = [win EXCEPT !.frames = Append(@, NewFrame(Top.stmts[Top.i].body))]
    /\ UNCHANGED pc
    /\ WinIdle

\* the loop of the inner call is over: back in the caller, the body as the
\* inner call left it
WinReturn ==
    /\ pc = "window"
    /\ Len(win.frames) >= 2
    /\ Top.done \/ Top.i > Len(Top.stmts)
    /\ LET k == Len(win.frames)
           below == win.frames[k - 1]
       IN win' = [win EXCEPT !.frames =
                     Append(SubSeq(@, 1, k - 2),
                            [below EXCEPT !.stmts[below.i] = SLoop(Top.stmts),
                                          !.recurred = TRUE])]
    /\ UNCHANGED pc
    /\ WinIdle

\* break: there aren't N elements left
WinBreak ==
    /\ Scanning
    /\ ~NeedsRecur
    /\ WindowShort
    /\ win' = SetTop([Top EXCEPT !.done = TRUE])
    /\ UNCHANGED pc
    /\ WinIdle

WinNone ==
    /\ Scanning
    /\ ~NeedsRecur
    /\ ~WindowShort
    /\ Decide(WindowNow).tag = "None"
    /\ Iterated(Top.stmts, Top.i + 1)

WinRemoveAll ==
    /\ Scanning
    /\ ~NeedsRecur
    /\ ~WindowShort
    /\ Decide(WindowNow).tag = "RemoveAll"
    /\ Iterated(RemoveAt(Top.stmts, Top.i, win.n), Top.i)

WinMerge ==
    /\ Scanning
    /\ ~NeedsRecur
    /\ ~WindowShort
    /\ Decide(WindowNow).tag = "Merge"
    /\ Iterated([RemoveAt(Top.stmts, Top.i, win.n - 1) EXCEPT ![Top.i] = Decide(WindowNow).new],
                Top.i)

\* the loop of the outermost call is over: window_pass returns
WinExit ==
    /\ pc = "window"
    /\ Len(win.frames) = 1
    /\ Top.done \/ Top.i > Len(Top.stmts)
    /\ pc' = "windowed"
    /\ UNCHANGED win
    /\ WinIdle

WindowLoop ==
    \/ WinRecur
    \/ WinReturn
    \/ WinBreak
    \/ WinNone
    \/ WinRemoveAll
    \/ WinMerge
    \/ WinExit

(* the calls of window_pass tried *)

\* N: `assert!(N > 0)`; the passes use 2 and 3
WindowSizes == {1, 2, 3}

TableKinds == {"Add", "Out", "Loop"}

TableStmts == {SAdd(0, 1), SOut, SLoop(<<SAdd(0, 1), SOut>>)}

Responses == {ActNone, ActRemoveAll, ActMerge(SOut), ActMerge(SLoop(<<SAdd(0, 1)>>))}

\* every closure that decides by the kind of the first element of the window
TableCalls ==
    {[name |-> "table", n |-> n, tab |-> tab, frames |-> <<NewFrame(stmts)>>] :
        n \in WindowSizes, tab \in [TableKinds -> Responses],
        stmts \in SeqsUpTo(TableStmts, MaxWinLen)}

WindowPasses == {"pass_set_n", "pass_cancel_left_right_add_sub", "pass_add_sub_offset"}

PassCallStmts ==
    UnitStmts \cup {SSetN(1), SLoop(<<SRight(1), SAdd(0, 1), SLeft(1)>>),
                    SLoop(<<SOut, SLoop(<<SSetN(0), SAdd(0, 1), SSub(0, 1)>>)>>)}

\* the three window passes as optimize calls them
PassCalls ==
    {[name |-> name, n |-> WindowN(name), tab |-> <<>>, frames |-> <<NewFrame(stmts)>>] :
        name \in WindowPasses, stmts \in SeqsUpTo(PassCallStmts, MaxWinLen)}

WindowCalls == TableCalls \cup PassCalls

-----------------------------------------------------------------------------
(* values of the variables before anything ran *)

NoStmt == [kind |-> "none", offset |-> 0, n |-> 0, pos |-> 0]

NoLast == [stmt |-> NoStmt, ip |-> 0, ptr |-> 0, mem |-> <<>>, outlen |-> 0,
           flushes |-> 0, inpos |-> 0, calls |-> 0, pstmt |-> NoStmt, pptr |-> 0]

NoRes == [status |-> "idle", out |-> <<>>, flushes |-> 0, cut |-> FALSE]

-----------------------------------------------------------------------------
(* lir: the statements the interpreter matches on, and the lowering of Ir *)

L(kind, offset, n, at) == [kind |-> kind, offset |-> offset, n |-> n, pos |-> at]

LAdd(n) == L("Add", 0, n, 0)
LSub(n) == L("Sub", 0, n, 0)
LAddOffset(offset, n) == L("AddOffset", offset, n, 0)
LSubOffset(offset, n) == L("SubOffset", offset, n, 0)
LMoveAddTo(offset) == L("MoveAddTo", offset, 0, 0)
LRight(n) == L("Right", 0, n, 0)
LLeft(n) == L("Left", 0, n, 0)
LOut == L("Out", 0, 0, 0)
LIn == L("In", 0, 0, 0)
LSetN(n) == L("SetN", 0, n, 0)
LJmpIfZero(at) == L("JmpIfZero", 0, 0, at)
LJmpIfNonZero(at) == L("JmpIfNonZero", 0, 0, at)
LEnd == L("End", 0, 0, 0)

\* a statement other than a Loop
lower_leaf(s) ==
    CASE s.kind = "Add" -> IF s.offset = 0 THEN LAdd(s.n) ELSE LAddOffset(s.offset, s.n)
      [] s.kind = "Sub" -> IF s.offset = 0 THEN LSub(s.n) ELSE LSubOffset(s.offset, s.n)
      [] s.kind = "MoveAddTo" -> LMoveAddTo(s.offset)
      [] s.kind = "Right" -> LRight(s.n)
      [] s.kind = "Left" -> LLeft(s.n)
      [] s.kind = "Out" -> LOut
      [] s.kind = "In" -> LIn
      [] s.kind = "SetN" -> LSetN(s.n)

RECURSIVE generate_stmts(_, _, _)

\* the list for stmts[i..], whose first statement gets index `base`; a Loop is
\* JmpIfZero(after the loop), the body, JmpIfNonZero(first of the body)
generate_stmts(stmts, i, base) ==
    IF i > Len(stmts) THEN <<>>
    ELSE LET s == stmts[i]
             one == IF s.kind = "Loop"
                    THEN LET body == generate_stmts(s.body, 1, base + 1)
                         IN <<LJmpIfZero(base + Len(body) + 2)>> \o body
                                \o <<LJmpIfNonZero(base + 1)>>
                    ELSE <<lower_leaf(s)>>
         IN one \o generate_stmts(stmts, i + 1, base + Len(one))

lower(stmts) == generate_stmts(stmts, 1, 0) \o <<LEnd>>

-----------------------------------------------------------------------------
(* lir/interpreter.rs *)

Cell(m, i) == IF i \in DOMAIN m THEN m[i] ELSE 0

Store(m, i, v) ==
    IF v = 0
    THEN [j \in DOMAIN m \ {i} |-> m[j]]
    ELSE [j \in DOMAIN m \cup {i} |-> IF j = i THEN v ELSE m[j]]

ZeroTape == [j \in {} |-> 0]

elem == Cell(mem, ptr)

\* variant: a saturating add
cell_add_saturating(v, n) == IF v + n > 255 THEN 255 ELSE v + n

\* Wrapping<u8> += n and -= n
cell_add(v, n) == (v + n) % 256
cell_sub(v, n) == (v - n + 256) % 256

\* variant: the offset is taken as an index from the start of the tape
offset_from_start(p, offset) == offset

\* the index elem_mut_offset hands to get_unchecked_mut
offset_index(p, offset) == p + offset

InTape(i) == i \in 0..(MEM_SIZE - 1)

move_right(p, n) == IF p + n >= MEM_SIZE THEN 0 ELSE p + n

\* variant: no wrap below index 0
move_left_plain(p, n) == p - n

move_left(p, n) == IF p < n THEN MEM_SIZE - 1 - (n - p) ELSE p - n

\* `elem() as char` written with "{char}": the UTF-8 bytes of U+0000..U+00FF
encode_char(v) == IF v < 128 THEN <<v>> ELSE <<192 + (v \div 64), 128 + (v % 64)>>

\* variant: the end of the stream reads as a zero byte
read_or_zero(input, at) ==
    IF at < Len(input)
    THEN [ok |-> TRUE, byte |-> input[at + 1]]
    ELSE [ok |-> TRUE, byte |-> 0]

\* read_exact of one byte from the stream, `at` bytes of which are consumed
read_exact(input, at) ==
    IF at < Len(input)
    THEN [ok |-> TRUE, byte |-> input[at + 1]]
    ELSE [ok |-> FALSE, byte |-> 0]

\* variant: the pointer is advanced before and after the dispatch
next_ip_twice(i) == i + 2

\* self.ip += 1
next_ip(i) == i + 1

\* run: the Interpreter value execute starts from
Construct(c, m) ==
    /\ code' = c
    /\ mode' = m
    /\ ip' = 0
    /\ ptr' = 0
    /\ mem' = ZeroTape
    /\ stdout' = <<>>
    /\ flushes' = 0
    /\ inpos' = 0
    /\ calls' = 0
    /\ cb_arg' = 0
    /\ status' = "running"
    /\ ub' = FALSE
    /\ steps' = 0
    /\ last' = NoLast
    /\ pc' = "run"

Fetching ==
    /\ pc = "run"
    /\ status = "running"
    /\ steps < MaxSteps
    /\ ip < Len(code)

instr == code[ip + 1]

\* the instruction being executed and the state it starts from; pstmt and
\* pptr are the instruction executed before it and the cursor that one
\* started from
Snapshot ==
    [stmt |-> instr, ip |-> ip, ptr |-> ptr, mem |-> mem, outlen |-> Len(stdout),
     flushes |-> flushes, inpos |-> inpos, calls |-> calls,
     pstmt |-> last.stmt, pptr |-> last.ptr]

Fixed ==
    /\ UNCHANGED <<src, stdin, ir, optRes, code, mode, pc, pin, applied, pout, kept, win>>
    /\ UNCHANGED parserVars

\* variant: the callback is handed the index of the instruction just fetched
executed_reports_fetched(ip2) ==
    /\ ip' = ip2
    /\ calls' = calls + 1
    /\ cb_arg' = ip
    /\ steps' = steps + 1
    /\ last' = Snapshot
    /\ status' = "running"
    /\ Fixed

\* the end of an iteration of execute's loop: profile_collector(self.ip)
Executed(ip2) ==
    /\ ip' = ip2
    /\ calls' = calls + 1
    /\ cb_arg' = ip2
    /\ steps' = steps + 1
    /\ last' = Snapshot
    /\ status' = "running"
    /\ Fixed

\* the run stops inside the instruction: no callback
Stopped(how) ==
    /\ ip' = next_ip(ip)
    /\ status' = how
    /\ steps' = steps + 1
    /\ last' = Snapshot
    /\ UNCHANGED <<calls, cb_arg>>
    /\ Fixed

\* get_unchecked_mut outside the tape is undefined: the process dies, or the
\* write lands outside the tape and execution goes on
StrayAccess ==
    /\ ub' = TRUE
    /\ \/ Stopped("crash")
       \/ Executed(next_ip(ip))

ExecAdd ==
    /\ Fetching
    /\ instr.kind = "Add"
    /\ mem' = Store(mem, ptr, cell_add(elem, instr.n))
    /\ UNCHANGED <<ptr, stdout, flushes, inpos, ub>>
    /\ Executed(next_ip(ip))

ExecSub ==
    /\ Fetching
    /\ instr.kind = "Sub"
    /\ mem' = Store(mem, ptr, cell_sub(elem, instr.n))
    /\ UNCHANGED <<ptr, stdout, flushes, inpos, ub>>
    /\ Executed(next_ip(ip))

ExecAddOffset ==
    /\ Fetching
    /\ instr.kind = "AddOffset"
    /\ UNCHANGED <<ptr, stdout, flushes, inpos>>
    /\ LET at == offset_index(ptr, instr.offset)
       IN IF InTape(at)
          THEN /\ mem' = Store(mem, at, cell_add(Cell(mem, at), instr.n))
               /\ UNCHANGED ub
               /\ Executed(next_ip(ip))
          ELSE /\ mem' = mem
               /\ StrayAccess

ExecSubOffset ==
    /\ Fetching
    /\ instr.kind = "SubOffset"
    /\ UNCHANGED <<ptr, stdout, flushes, inpos>>
    /\ LET at == offset_index(ptr, instr.offset)
       IN IF InTape(at)
          THEN /\ mem' = Store(mem, at, cell_sub(Cell(mem, at), instr.n))
               /\ UNCHANGED ub
               /\ Executed(next_ip(ip))
          ELSE /\ mem' = mem
               /\ StrayAccess

ExecMoveAddTo ==
    /\ Fetching
    /\ instr.kind = "MoveAddTo"
    /\ UNCHANGED <<ptr, stdout, flushes, inpos>>
    /\ LET value == elem
           zeroed == Store(mem, ptr, 0)
           at == offset_index(ptr, instr.offset)
       IN IF InTape(at)
          THEN /\ mem' = Store(zeroed, at, cell_add(Cell(zeroed, at), value))
               /\ UNCHANGED ub
               /\ Executed(next_ip(ip))
          ELSE /\ mem' = zeroed
               /\ StrayAccess

ExecRight ==
    /\ Fetching
    /\ instr.kind = "Right"
    /\ ptr' = move_right(ptr, instr.n)
    /\ UNCHANGED <<mem, stdout, flushes, inpos, ub>>
    /\ Executed(next_ip(ip))

ExecLeft ==
    /\ Fetching
    /\ instr.kind = "Left"
    /\ ptr' = move_left(ptr, instr.n)
    /\ UNCHANGED <<mem, stdout, flushes, inpos, ub>>
    /\ Executed(next_ip(ip))

ExecOut ==
    /\ Fetching
    /\ instr.kind = "Out"
    /\ stdout' = stdout \o encode_char(elem)
    /\ flushes' = flushes + 1
    /\ UNCHANGED <<ptr, mem, inpos, ub>>
    /\ Executed(next_ip(ip))

ExecIn ==
    /\ Fetching
    /\ instr.kind = "In"
    /\ UNCHANGED <<ptr, stdout, flushes, ub>>
    /\ LET buf == read_exact(stdin, inpos)
       IN IF buf.ok
          THEN /\ mem' = Store(mem, ptr, buf.byte)
               /\ inpos' = inpos + 1
               /\ Executed(next_ip(ip))
          ELSE /\ UNCHANGED <<mem, inpos>>
               /\ Stopped("panic")

ExecSetN ==
    /\ Fetching
    /\ instr.kind = "SetN"
    /\ mem' = Store(mem, ptr, instr.n)
    /\ UNCHANGED <<ptr, stdout, flushes, inpos, ub>>
    /\ Executed(next_ip(ip))

ExecJmpIfZero ==
    /\ Fetching
    /\ instr.kind = "JmpIfZero"
    /\ UNCHANGED <<ptr, mem, stdout, flushes, inpos, ub>>
    /\ Executed(IF elem = 0 THEN instr.pos ELSE next_ip(ip))

ExecJmpIfNonZero ==
    /\ Fetching
    /\ instr.kind = "JmpIfNonZero"
    /\ UNCHANGED <<ptr, mem, stdout, flushes, inpos, ub>>
    /\ Executed(IF elem # 0 THEN instr.pos ELSE next_ip(ip))

ExecEnd ==
    /\ Fetching
    /\ instr.kind = "End"
    /\ UNCHANGED <<ptr, mem, stdout, flushes, inpos, ub>>
    /\ Stopped("ended")

execute ==
    \/ ExecAdd
    \/ ExecSub
    \/ ExecAddOffset
    \/ ExecSubOffset
    \/ ExecMoveAddTo
    \/ ExecRight
    \/ ExecLeft
    \/ ExecOut
    \/ ExecIn
    \/ ExecSetN
    \/ ExecJmpIfZero
    \/ ExecJmpIfNonZero
    \/ ExecEnd

(* the driver: run the optimized program, then the unoptimized lowering of *)
(* the same tree on the same stream                                         *)

RunOver == pc = "run" /\ (status # "running" \/ steps >= MaxSteps)

RunOptimized ==
    /\ pc = "optimized"
    /\ Construct(lower(ir), "opt")
    /\ UNCHANGED <<src, stdin, ir, optRes, pin, applied, pout, kept, win>>
    /\ UNCHANGED parserVars

FinishOptimized ==
    /\ RunOver
    /\ mode = "opt"
    /\ optRes' = [status |-> status, out |-> stdout, flushes |-> flushes,
                  cut |-> status = "running"]
    /\ pc' = "ref"
    /\ UNCHANGED <<src, stdin, ir, pin, applied, pout, kept, win>>
    /\ UNCHANGED parserVars
    /\ UNCHANGED interpVars

RunUnoptimized ==
    /\ pc = "ref"
    /\ Construct(lower(ast_to_ir(arena, ast)), "ref")
    /\ UNCHANGED <<src, stdin, ir, optRes, pin, applied, pout, kept, win>>
    /\ UNCHANGED parserVars

RunLir ==
    /\ pc = "lir"
    /\ Construct(code, "lir")
    /\ UNCHANGED <<src, stdin, ir, optRes, pin, applied, pout, kept, win>>
    /\ UNCHANGED parserVars

Finish ==
    /\ RunOver
    /\ mode \in {"ref", "lir"}
    /\ pc' = "done"
    /\ UNCHANGED <<src, stdin, ir, optRes, pin, applied, pout, kept, win>>
    /\ UNCHANGED parserVars
    /\ UNCHANGED interpVars

Driver == RunOptimized \/ FinishOptimized \/ RunUnoptimized \/ RunLir \/ Finish

(* statement lists handed to run directly: every list of up to MaxLirLen *)
(* statements and an End whose jumps stay inside the list                 *)

LirInstrs(len) ==
    {LAdd(1), LAdd(255), LSub(1), LRight(1), LLeft(1), LOut, LIn, LSetN(0),
     LAddOffset(1, 1), LSubOffset(1, 1), LMoveAddTo(1)}
    \cup {LJmpIfZero(at) : at \in 0..(len - 1)}
    \cup {LJmpIfNonZero(at) : at \in 0..(len - 1)}

SetOutLirs == {<<LSetN(v), LOut, LEnd>> : v \in 0..255}

\* the loops pass_find_set_null replaces: SetN(v), then Loop([Sub(0, n)])
SubCounts == {1, 2, 3, 128, 255}
StartCells == {0, 1, 2, 3, 255}

SubLoop(v, n) == lower(<<SSetN(v), SLoop(<<SSub(0, n)>>)>>)

SubLoopLirs == {SubLoop(v, n) : v \in StartCells, n \in SubCounts}

DirectLirs ==
    UNION {{s \o <<LEnd>> : s \in [1..k -> LirInstrs(k + 1)]} : k \in 1..MaxLirLen}
    \cup SetOutLirs
    \cup SubLoopLirs

HasLirIn(c) == \E i \in 1..Len(c) : c[i].kind = "In"

-----------------------------------------------------------------------------
(* Initial states *)

IdleInterpreter ==
    /\ mode = "none"
    /\ ip = 0
    /\ ptr = 0
    /\ mem = <<>>
    /\ stdout = <<>>
    /\ flushes = 0
    /\ inpos = 0
    /\ calls = 0
    /\ cb_arg = 0
    /\ status = "idle"
    /\ ub = FALSE
    /\ steps = 0
    /\ last = NoLast

IdlePasses ==
    /\ pin = <<>>
    /\ applied = "none"
    /\ pout = <<>>
    /\ kept = NoKept
    /\ win = NoWin

ParserStart ==
    /\ pos = 0
    /\ frames = <<<<>>>>
    /\ depth = 0
    /\ arena = <<>>
    /\ parsed = "none"
    /\ ast = <<>>
    /\ pc = "parse"
    /\ ir = <<>>
    /\ optRes = NoRes

InitParse ==
    /\ src \in Sources \cup DeepSources
    /\ stdin = <<>>
    /\ ParserStart
    /\ code = <<>>
    /\ IdleInterpreter
    /\ IdlePasses

SpecParse == InitParse /\ [][parse]_vars

InitComments ==
    /\ src \in CommentedSources
    /\ stdin = <<>>
    /\ ParserStart
    /\ code = <<>>
    /\ IdleInterpreter
    /\ IdlePasses

ParseBoth == parse \/ Reparse

SpecComments == InitComments /\ [][ParseBoth]_vars

InitSource ==
    /\ src \in Sources
    /\ stdin \in InputsFor(src)
    /\ ParserStart
    /\ code = <<>>
    /\ IdleInterpreter
    /\ IdlePasses

InitLir ==
    /\ src = <<>>
    /\ pos = 0
    /\ frames = <<>>
    /\ depth = 0
    /\ arena = <<>>
    /\ parsed = "none"
    /\ ast = <<>>
    /\ pc = "lir"
    /\ ir = <<>>
    /\ optRes = NoRes
    /\ code \in DirectLirs
    /\ stdin \in (IF HasLirIn(code) THEN SeqsUpTo(InBytes, MaxInput) ELSE {<<>>})
    /\ IdleInterpreter
    /\ IdlePasses

InitPasses ==
    /\ src = <<>>
    /\ stdin = <<>>
    /\ pos = 0
    /\ frames = <<>>
    /\ depth = 0
    /\ arena = <<>>
    /\ parsed = "none"
    /\ ast = <<>>
    /\ pc = "passes"
    /\ ir = <<>>
    /\ optRes = NoRes
    /\ code = <<>>
    /\ IdleInterpreter
    /\ pin \in IrInputs
    /\ applied = "none"
    /\ pout = <<>>
    /\ kept = NoKept
    /\ win = NoWin

SpecPasses == InitPasses /\ [][Passes]_vars

InitWindow ==
    /\ src = <<>>
    /\ stdin = <<>>
    /\ pos = 0
    /\ frames = <<>>
    /\ depth = 0
    /\ arena = <<>>
    /\ parsed = "none"
    /\ ast = <<>>
    /\ pc = "window"
    /\ ir = <<>>
    /\ optRes = NoRes
    /\ code = <<>>
    /\ IdleInterpreter
    /\ pin = <<>>
    /\ applied = "none"
    /\ pout = <<>>
    /\ kept = NoKept
    /\ win \in WindowCalls

SpecWindow == InitWindow /\ [][WindowLoop]_vars

Init == InitSource \/ InitLir

Next == parse \/ Optimize \/ Driver \/ execute

Spec == Init /\ [][Next]_vars

-----------------------------------------------------------------------------
(* Properties *)

\* how many of the first i bytes of s lie in run r
InRun(s, r, i) ==
    IF i <= RunStart(s, r) THEN 0
    ELSE IF i >= RunStart(s, r) + s[r].k THEN s[r].k
    ELSE i - RunStart(s, r)

RECURSIVE CountIn(_, _, _, _)
\* how many of the first i bytes of s, in the runs r.., are the byte b
CountIn(s, b, r, i) ==
    IF r > Len(s) THEN 0
    ELSE (IF s[r].b = b THEN InRun(s, r, i) ELSE 0) + CountIn(s, b, r + 1, i)

\* opening minus closing brackets among the first i bytes of s
NestAt(s, i) == CountIn(s, "[", 1, i) - CountIn(s, "]", 1, i)

Balanced(s) ==
    /\ NestAt(s, SrcLen(s)) = 0
    /\ \A i \in 1..SrcLen(s) : NestAt(s, i) >= 0

\* whether k brackets are open at once somewhere in s
NestReaches(s, k) == \E i \in 1..SrcLen(s) : NestAt(s, i) >= k

WellFormedLir(c) ==
    /\ Len(c) >= 1
    /\ c[Len(c)].kind = "End"
    /\ \A i \in 1..Len(c) :
          c[i].kind \in {"JmpIfZero", "JmpIfNonZero"} => c[i].pos \in 0..(Len(c) - 1)

RunCompleted(s) == s \in {"ended", "panic", "crash"}

\* C1: the optimized program writes the same bytes and ends the same way as
\* the unoptimized lowering of the same tree on the same input stream
C1_RoundTrip ==
    (pc = "done" /\ mode = "ref" /\ RunCompleted(status) /\ RunCompleted(optRes.status))
        => (optRes.out = stdout /\ optRes.status = status)

\* C2: at every fetch of a list that ends in End and whose jumps stay inside
\* it, the instruction pointer is below the length of the list
C2_IpInBounds ==
    (pc = "run" /\ status = "running" /\ WellFormedLir(code)) => ip < Len(code)

C2_Witness ==
    /\ pc = "run"
    /\ mode = "lir"
    /\ status = "running"
    /\ last.stmt.kind = "JmpIfNonZero"
    /\ last.ip = Len(code) - 2
    /\ ip = last.stmt.pos
    /\ ip = Len(code) - 1

\* C3: in a run of an optimized program, an AddOffset, SubOffset or MoveAddTo
\* about to execute addresses a cell of the tape
C3_OffsetInBounds ==
    (pc = "run" /\ mode = "opt" /\ status = "running" /\ ip < Len(code)
        /\ instr.kind \in {"AddOffset", "SubOffset", "MoveAddTo"})
        => InTape(offset_index(ptr, instr.offset))

\* C4: parse fails, leaving no tree, on a ']' without an open '[' and on an
\* unclosed '['; "[]" gives one Loop with an empty body; a balanced source
\* nested no deeper than the bound parses
C4_BalancedBrackets ==
    pc = "parsed" =>
        /\ parsed \in {"Ok", "Err"}
        /\ ~Balanced(src) => parsed = "Err"
        /\ parsed = "Err" => (ast = <<>> /\ arena = <<>> /\ frames = <<>>)
        /\ src = Text(<<"[", "]">>) =>
              (parsed = "Ok" /\ ast = <<Loop(1)>> /\ arena = <<<<>>>>)
        /\ (Balanced(src) /\ ~NestReaches(src, MAX_DEPTH + 1)) => parsed = "Ok"

C4_Witness ==
    /\ pc = "parsed"
    /\ src = Text(<<"[", "]", "]">>)
    /\ pos = 3
    /\ parsed = "Err"

\* C5: parse fails on a source with 1001 '[' open at once, whether or not
\* they are closed later, and succeeds on a balanced source nested 1000 deep
\* or less
C5_DepthBound ==
    pc = "parsed" =>
        /\ NestReaches(src, MAX_DEPTH + 1) => parsed = "Err"
        /\ (Balanced(src) /\ ~NestReaches(src, MAX_DEPTH + 1)) => parsed = "Ok"

\* C6: Right(1) at the last index moves the cursor to 0, and Left(1) at 0
\* moves it to the last index
C6_CursorWrap ==
    /\ (last.stmt = LRight(1) /\ last.ptr = MEM_SIZE - 1) => ptr = 0
    /\ (last.stmt = LLeft(1) /\ last.ptr = 0) => ptr = MEM_SIZE - 1

\* C7: the tape starts all zero, Add(n) and Sub(n) change the cell under the
\* cursor by n modulo 256, and every cell stays within 0..255
C7_CellWrap ==
    LET before == Cell(last.mem, last.ptr)
        after == Cell(mem, last.ptr)
        n == last.stmt.n
    IN /\ (pc = "run" /\ steps = 0) => DOMAIN mem = {}
       /\ \A i \in DOMAIN mem : mem[i] \in 0..255
       /\ last.stmt.kind = "Add" =>
             after = (IF before + n >= 256 THEN before + n - 256 ELSE before + n)
       /\ last.stmt.kind = "Sub" =>
             after = (IF before < n THEN before + 256 - n ELSE before - n)
       /\ (last.stmt = LSub(1) /\ before = 0) => after = 255
       /\ (last.stmt = LAdd(1) /\ before = 255) => after = 0

C7_Witness ==
    /\ last.stmt = LAdd(1)
    /\ Cell(last.mem, last.ptr) = 255
    /\ Cell(mem, ptr) = 0
    /\ mode = "lir"

\* C8: "[-]" optimizes to SetN(0) alone, "[->+<]" to MoveAddTo{offset: 1}
\* alone, and ">+<" to Add(1, 1) alone
C8_Idioms ==
    pc = "optimized" =>
        /\ src = Text(<<"[", "-", "]">>) => ir = <<SSetN(0)>>
        /\ src = Text(<<"[", "-", ">", "+", "<", "]">>) => ir = <<SMoveAddTo(1)>>
        /\ src = Text(<<">", "+", "<">>) => ir = <<SAdd(1, 1)>>

C8_Witness ==
    /\ pc = "optimized"
    /\ src = Text(<<"[", "-", ">", "+", "<", "]">>)
    /\ ir = <<SMoveAddTo(1)>>

\* C9: every Out appends one byte, the value of the cell under the cursor,
\* and flushes once; so the sink holds as many bytes as there were flushes
C9_OutOneByte ==
    /\ last.stmt.kind = "Out" =>
          /\ stdout = SubSeq(stdout, 1, last.outlen) \o <<Cell(last.mem, last.ptr)>>
          /\ flushes = last.flushes + 1
    /\ Len(stdout) = flushes

\* C10: an In takes one byte of the stream into the cell under the cursor;
\* when the stream has none the run stops there, the cell as it was, nothing
\* more executed or written
C10_Input ==
    /\ (last.stmt.kind = "In" /\ last.inpos < Len(stdin)) =>
          /\ status = "running"
          /\ inpos = last.inpos + 1
          /\ ptr = last.ptr
          /\ Cell(mem, ptr) = stdin[last.inpos + 1]
    /\ (last.stmt.kind = "In" /\ last.inpos >= Len(stdin)) =>
          /\ status = "panic"
          /\ inpos = last.inpos
          /\ mem = last.mem
          /\ Len(stdout) = last.outlen
          /\ calls = last.calls
    /\ status = "panic" => ~ENABLED execute

C10_Witness ==
    /\ last.stmt.kind = "In"
    /\ status = "panic"
    /\ last.inpos = 1
    /\ Cell(mem, ptr) = 255


\* whether stmts is in the range of ast_to_ir: counts 1, offsets 0, no
\* statement an optimizer pass makes
RECURSIVE IsLowered(_)
IsLowered(stmts) ==
    \A i \in 1..Len(stmts) :
        \/ stmts[i] \in UnitStmts \cup {SIn}
        \/ stmts[i].kind = "Loop" /\ IsLowered(stmts[i].body)

\* C11: pass_group run on its own result, for a list lowered from a parsed
\* program, returns that result unchanged
C11_GroupIdempotent ==
    (applied = "pass_group" /\ Len(pout) = 2 /\ IsLowered(pin)) => pout[2] = pout[1]

C11_Witness ==
    /\ applied = "pass_group"
    /\ Len(pout) = 2
    /\ pin = Repeat(SRight(1), U8_MAX + 1)
    /\ pout[1] = <<SRight(U8_MAX), SRight(1)>>
    /\ pout[2] = pout[1]


\* what each pass looks for: a window of adjacent statements ...
WindowMatches(name, stmts, i) ==
    LET a == stmts[i]
        b == stmts[i + 1]
        c == stmts[i + 2]
    IN CASE name = "pass_group" ->
              /\ i + 1 <= Len(stmts)
              /\ a.kind = b.kind
              /\ \/ a.kind \in {"Right", "Left"}
                 \/ a.kind \in {"Add", "Sub"} /\ a.offset = b.offset
         [] name = "pass_set_n" ->
              /\ i + 1 <= Len(stmts)
              /\ a.kind = "SetN"
              /\ b.kind \in {"Add", "Sub"}
              /\ b.offset = 0
         [] name = "pass_cancel_left_right_add_sub" ->
              /\ i + 1 <= Len(stmts)
              /\ \/ {a.kind, b.kind} = {"Right", "Left"}
                 \/ {a.kind, b.kind} = {"Add", "Sub"} /\ a.offset = b.offset
         [] name = "pass_add_sub_offset" ->
              /\ i + 2 <= Len(stmts)
              /\ {a.kind, c.kind} = {"Right", "Left"}
              /\ a.n = c.n
              /\ b.kind \in {"Add", "Sub"}
              /\ b.offset = 0
         [] OTHER -> FALSE

\* ... or a loop with a certain body
LoopMatches(name, body) ==
    CASE name = "pass_find_set_null" ->
              Len(body) = 1 /\ body[1].kind = "Sub" /\ body[1].offset = 0
      [] name = "pass_move_add_to" ->
              /\ Len(body) = 2
              /\ \E j \in 1..2 :
                    /\ body[j] = SSub(0, 1)
                    /\ body[3 - j].kind = "Add"
                    /\ body[3 - j].n = 1
      [] OTHER -> FALSE

RECURSIVE HasPattern(_, _)
\* whether stmts holds, at any nesting level, something the pass looks for
HasPattern(name, stmts) ==
    \E i \in 1..Len(stmts) :
        \/ WindowMatches(name, stmts, i)
        \/ /\ stmts[i].kind = "Loop"
           /\ \/ LoopMatches(name, stmts[i].body)
              \/ HasPattern(name, stmts[i].body)

\* C12: a pass handed a list that holds nothing it looks for, at any nesting
\* level, returns the list as it was
C12_NoPatternNoChange ==
    (applied \in PassNames /\ ~HasPattern(applied, pin)) => pout[1] = pin

C12_Witness ==
    /\ applied = "pass_find_set_null"
    /\ pin = <<SAdd(0, 1), SLoop(<<SSub(1, 1)>>), SRight(2)>>
    /\ ~HasPattern(applied, pin)
    /\ pout = <<pin>>


\* C13: a loop whose body is Sub(0, n) alone, started on any cell value, ends,
\* and ends with the cell at 0 and nothing else changed, as SetN(0) does.  The
\* run is deterministic and reads nothing, so it does not end once the cell is
\* back at its starting value when the loop jumps back.
C13_SubLoopZeroes ==
    (mode = "lir" /\ code \in SubLoopLirs) =>
        /\ (last.stmt.kind = "JmpIfNonZero" /\ status = "running" /\ ip = last.stmt.pos)
              => Cell(mem, ptr) # code[1].n
        /\ status = "ended" =>
              (DOMAIN mem = {} /\ ptr = 0 /\ stdout = <<>> /\ inpos = 0)


\* the cursor after what the cancel pass puts in place of a pair of moves,
\* executed from cursor p
CursorAfter(act, p) ==
    CASE act.tag = "RemoveAll" -> p
      [] act.tag = "Merge" /\ act.new.kind = "Right" -> move_right(p, act.new.n)
      [] act.tag = "Merge" /\ act.new.kind = "Left" -> move_left(p, act.new.n)

\* C14: Right(r) then Left(l), and Left(l) then Right(r), leave the cursor
\* where the replacement made by the cancel pass leaves it: nothing for r = l,
\* Right(r - l) for r > l, Left(l - r) for l > r
C14_CancelMovesSound ==
    /\ (last.pstmt.kind = "Right" /\ last.stmt.kind = "Left") =>
          ptr = CursorAfter(cancel_action(last.pstmt, last.stmt), last.pptr)
    /\ (last.pstmt.kind = "Left" /\ last.stmt.kind = "Right") =>
          ptr = CursorAfter(cancel_action(last.pstmt, last.stmt), last.pptr)


\* C15: a MoveAddTo{offset} made by pass_move_add_to leaves the current cell
\* at 0 and the cell at cursor + offset at its old value plus the old value
\* of the current cell, modulo 256 (stated for the targets inside the tape)
C15_MoveAddSound ==
    LET at == offset_index(last.ptr, last.stmt.offset)
    IN (mode = "opt" /\ last.stmt.kind = "MoveAddTo" /\ status = "running" /\ InTape(at)) =>
          /\ Cell(mem, last.ptr) = 0
          /\ Cell(mem, at) = (Cell(last.mem, at) + Cell(last.mem, last.ptr)) % 256


\* C16: what pass_cancel_left_right_add_sub returns holds, in no block, an
\* adjacent Right/Left pair or an adjacent Add/Sub pair at one offset; the
\* body Add(0,1) Right(1) Left(1) Sub(0,1) ends empty
C16_WindowReevaluated ==
    pc = "pass_add_sub_offset" =>
        /\ ~HasPattern("pass_cancel_left_right_add_sub", ir)
        /\ src = Text(<<"[", "+", ">", "<", "-", "]">>) => ir = <<SLoop(<<>>)>>


\* C17: the window passes are applied to the body of every Loop, wherever it
\* stands in its block: after pass_set_n and after pass_add_sub_offset no
\* block at any level holds what the pass looks for, and "+[->+<]" ends as
\* Add(0,1) MoveAddTo(1)
C17_EveryLoopBodyReached ==
    /\ pc = "pass_cancel" => ~HasPattern("pass_set_n", ir)
    /\ pc = "pass_move_add_to" => ~HasPattern("pass_add_sub_offset", ir)
    /\ (pc = "optimized" /\ src = Text(<<"+", "[", "-", ">", "+", "<", "]">>)) =>
          ir = <<SAdd(0, 1), SMoveAddTo(1)>>


CountedKinds == {"Add", "Sub", "Right", "Left"}

RECURSIVE CountsCapped(_)
\* every Add, Sub, Right and Left of stmts, at any level, counts 1 to 255
CountsCapped(stmts) ==
    \A i \in 1..Len(stmts) :
        /\ stmts[i].kind \in CountedKinds => stmts[i].n \in 1..U8_MAX
        /\ stmts[i].kind = "Loop" => CountsCapped(stmts[i].body)

RECURSIVE FullBeforeNext(_)
\* a statement followed by one of its own kind (and offset) counts 255
FullBeforeNext(stmts) ==
    /\ \A i \in 1..(Len(stmts) - 1) :
          (WindowMatches("pass_group", stmts, i)) => stmts[i].n = U8_MAX
    /\ \A i \in 1..Len(stmts) :
          stmts[i].kind = "Loop" => FullBeforeNext(stmts[i].body)

RECURSIVE CountOf(_, _, _, _)
\* the sum of the counts of the statements of one kind among stmts[lo..hi],
\* bodies of loops included
CountOf(kind, stmts, lo, hi) ==
    IF lo > hi THEN 0
    ELSE IF lo = hi
         THEN (IF stmts[lo].kind = kind THEN stmts[lo].n ELSE 0)
              + (IF stmts[lo].kind = "Loop"
                 THEN CountOf(kind, stmts[lo].body, 1, Len(stmts[lo].body))
                 ELSE 0)
    ELSE LET mid == (lo + hi) \div 2
         IN CountOf(kind, stmts, lo, mid) + CountOf(kind, stmts, mid + 1, hi)

\* C18: after pass_group on a lowered program every Add, Sub, Right and Left
\* counts 1 to 255, the counts of each kind sum to the number of source
\* instructions of that kind, and of the statements made of one run each but
\* the last counts 255
C18_GroupCap ==
    (applied = "pass_group" /\ IsLowered(pin)) =>
        /\ CountsCapped(pout[1])
        /\ FullBeforeNext(pout[1])
        /\ \A kind \in CountedKinds :
              CountOf(kind, pout[1], 1, Len(pout[1])) = CountOf(kind, pin, 1, Len(pin))

C18_Witness ==
    /\ applied = "pass_group"
    /\ pin = Repeat(SAdd(0, 1), U8_MAX + 1)
    /\ pout[1] = <<SAdd(0, U8_MAX), SAdd(0, 1)>>


JumpKinds == {"JmpIfZero", "JmpIfNonZero"}

\* whether the jump executed last was taken
JumpTaken ==
    \/ last.stmt.kind = "JmpIfZero" /\ Cell(last.mem, last.ptr) = 0
    \/ last.stmt.kind = "JmpIfNonZero" /\ Cell(last.mem, last.ptr) # 0

\* C20: the callback is invoked once after every executed instruction but
\* End, with the instruction pointer as the instruction left it (the target
\* of a taken jump, the index after the instruction otherwise), and leaves
\* tape, cursor, instruction pointer and streams alone
C20_Callback ==
    /\ status = "running" =>
          /\ calls = steps
          /\ steps > 0 =>
                /\ calls = last.calls + 1
                /\ cb_arg = ip
                /\ ip = (IF JumpTaken THEN last.stmt.pos ELSE last.ip + 1)
    /\ status = "ended" =>
          /\ last.stmt.kind = "End"
          /\ calls = last.calls
          /\ calls = steps - 1
    /\ (status = "running" /\ last.stmt.kind \in JumpKinds) =>
          /\ mem = last.mem
          /\ ptr = last.ptr
          /\ Len(stdout) = last.outlen
          /\ inpos = last.inpos

C20_Witness ==
    /\ status = "running"
    /\ last.stmt.kind = "JmpIfNonZero"
    /\ JumpTaken
    /\ last.stmt.pos < last.ip
    /\ cb_arg = last.stmt.pos
    /\ calls = steps


\* C21: parse returns for a source what it returns for the source without
\* its bytes that are no command: both fail, or both succeed with the same
\* instructions in the same order and nesting (the tree is ast together with
\* the loop bodies in arena), for commentary at top level and inside loops
C21_CommentsIgnored ==
    (pc = "parsed" /\ kept # NoKept) =>
        /\ src = strip_comments(kept.src)
        /\ parsed = kept.parsed
        /\ ast = kept.ast
        /\ arena = kept.arena

C21_Witness ==
    /\ pc = "parsed"
    /\ kept.src = Text(Sprinkle(<<"+", "[", "-", ">", "+", "<", "]">>, "\n"))
    /\ src = Text(<<"+", "[", "-", ">", "+", "<", "]">>)
    /\ parsed = "Ok"
    /\ ast = <<Leaf("Add"), Loop(1)>>
    /\ arena = <<<<Leaf("Sub"), Leaf("Right"), Leaf("Add"), Leaf("Left")>>>>
    /\ kept.ast = ast
    /\ kept.arena = arena


SameExcept(m1, m2, cells) ==
    \A j \in (DOMAIN m1 \cup DOMAIN m2) \ cells : Cell(m1, j) = Cell(m2, j)

=============================================================================
